---- MODULE Spec2Model ----
(***************************************************************************)
(* Flight Deck client: the flight status classifier                        *)
(* (src/utils/statusCalculator.ts, two versions in the sources), the       *)
(* status-change tracking of FlightTable (animatingStatuses, its expiry    *)
(* timers and the effect that maintains them) with what its rows show,     *)
(* driven by the flights list of FlightDashboard / useFlightsData, and     *)
(* the SignalR service (src/services/signalrService.ts) that delivers the  *)
(* status-change notifications.                                            *)
(*                                                                         *)
(* Time is in milliseconds, as Date.now() and Date.prototype.getTime().    *)
(***************************************************************************)
EXTENDS Integers, Sequences, FiniteSets, TLC

VARIABLES
    now,                \* the system clock, the value Date.now() returns
    lastCall,           \* classifier harness: the latest call and its outcome
    prevCall,           \* classifier harness: the call before the latest one
    flights,            \* useFlightsData: the flights state (list of IFlight)
    loading,            \* useFlightsData: the loading state
    inFlight,           \* number of getFlights requests awaiting their response
    mounted,            \* FlightTable is mounted (rendered by FlightDashboard)
    rerender,           \* the effect's setAnimatingStatuses awaits its render
    animatingStatuses,  \* FlightTable state, every queued updater applied
    renderedAnim,       \* animatingStatuses as the latest render saw it
    prevFlightsRef,     \* FlightTable: prevFlightsRef.current
    deletingId,         \* FlightTable state
    timers,             \* pending setTimeout callbacks of the mounted FlightTable
    orphanTimers,       \* pending setTimeout callbacks of unmounted FlightTables
    deleteReq,          \* handleDelete calls awaiting deleteFlight
    observedAt,         \* history: the clock reading at the effect's latest run
    displayed,          \* the status chips each rendered FlightRow shows
    connection,         \* signalrService: the module variable `connection`
    hubs,               \* the HubConnection objects built so far
    effects,            \* the runs of FlightDashboard's SignalR effect
    applied,            \* FlightDashboard: the applied destination / status filters
    requests,           \* the getFlights requests awaiting their response
    error,              \* useFlightsData: the error state
    backend,            \* the flights the backend holds, and which it announced
    snackbar            \* useSnackbar: open, message, severity

vars == <<now, lastCall, prevCall, flights, loading, inFlight, mounted, rerender,
          animatingStatuses, renderedAnim, prevFlightsRef, deletingId, timers,
          orphanTimers, deleteReq, observedAt, displayed, connection, hubs,
          effects, applied, requests, error, backend, snackbar>>

classifierVars == <<lastCall, prevCall>>
dataVars == <<flights, loading, inFlight>>
tableVars == <<mounted, rerender, animatingStatuses, renderedAnim, prevFlightsRef,
               deletingId, timers, orphanTimers, deleteReq, observedAt>>
viewVars == <<displayed>>
signalrVars == <<connection, hubs, effects>>
hookVars == <<applied, requests, error>>
outerVars == <<hookVars, backend, snackbar>>

----------------------------------------------------------------------------
(* Numbers.  A JavaScript number is modelled as an integer or NaN;         *)
(* every comparison with NaN is false.                                     *)

NaN == [nan |-> TRUE, v |-> 0]
Num(n) == [nan |-> FALSE, v |-> n]
isNaN(x) == x.nan
Minus(a, b) == IF a.nan \/ b.nan THEN NaN ELSE Num(a.v - b.v)

\* diffMinutes = diffMillis / 60000 is kept as its numerator diffMillis;
\* "diffMinutes > m" is then "diffMillis > m * 60000" (exact for integers).
MinGt(diffMillis, m) == ~diffMillis.nan /\ diffMillis.v > m * 60000
MinGe(diffMillis, m) == ~diffMillis.nan /\ diffMillis.v >= m * 60000
MinLt(diffMillis, m) == ~diffMillis.nan /\ diffMillis.v < m * 60000

\* A departure time string.  A well-formed ISO 8601 string is represented
\* by the instant it denotes; any other text does not parse.
IsoString(ms) == [ms |-> ms, text |-> "iso"]
GarbageStrings == {[ms |-> 0, text |-> "not-a-date"], [ms |-> 0, text |-> ""]}

\* new Date(s).getTime()
DateGetTime(s) == IF s.text = "iso" THEN Num(s.ms) ELSE NaN

FlightStatus == {"Scheduled", "Boarding", "Departed", "Landed", "Delayed", "Unknown"}
validStatusOptions == {"Scheduled", "Boarding", "Departed", "Landed", "Delayed"}

----------------------------------------------------------------------------
(* calculateFlightStatus.  The outcome records the returned status,        *)
(* whether the call threw, and whether it wrote a diagnostic.              *)

Outcome(status, diag) == [status |-> status, diag |-> diag, threw |-> FALSE]

\* Faulty variants of calculateFlightStatus, against which the classifier
\* properties are shown to discriminate.
\* (a) the first threshold taken as inclusive (>= 30);
calculateFlightStatus_InclusiveThirty(departureTimeString, nowUtcMillis) ==
    LET departureUtcMillis == DateGetTime(departureTimeString)
        diffMinutes == Minus(departureUtcMillis, Num(nowUtcMillis))
    IN  IF isNaN(departureUtcMillis) THEN Outcome("Unknown", TRUE)
        ELSE IF MinGe(diffMinutes, 30) THEN Outcome("Scheduled", FALSE)
        ELSE IF MinGt(diffMinutes, 10) THEN Outcome("Boarding", FALSE)
        ELSE IF MinGe(diffMinutes, -60) THEN Outcome("Departed", FALSE)
        ELSE Outcome("Landed", FALSE)

\* (b) no isNaN guard, and the fallback 'return "Scheduled"' the comment at
\*     lines 38-40 mentions instead of 'return "Unknown"';
calculateFlightStatus_NoGuard(departureTimeString, nowUtcMillis) ==
    LET departureUtcMillis == DateGetTime(departureTimeString)
        diffMinutes == Minus(departureUtcMillis, Num(nowUtcMillis))
    IN  IF MinGt(diffMinutes, 30) THEN Outcome("Scheduled", FALSE)
        ELSE IF MinGt(diffMinutes, 10) THEN Outcome("Boarding", FALSE)
        ELSE IF MinGe(diffMinutes, -60) THEN Outcome("Departed", FALSE)
        ELSE IF MinLt(diffMinutes, -60) THEN Outcome("Landed", FALSE)
        ELSE IF MinLt(diffMinutes, -15) THEN Outcome("Delayed", FALSE)
        ELSE Outcome("Scheduled", FALSE)

\* (c) the result memoized per departure string: a repeated call with the
\*     string of the latest call returns that call's result.
calculateFlightStatus_Memoized(departureTimeString, nowUtcMillis) ==
    LET departureUtcMillis == DateGetTime(departureTimeString)
        diffMinutes == Minus(departureUtcMillis, Num(nowUtcMillis))
    IN  IF lastCall.fn = "statusCalculator" /\ lastCall.dep = departureTimeString
        THEN lastCall.out
        ELSE IF isNaN(departureUtcMillis) THEN Outcome("Unknown", TRUE)
        ELSE IF MinGt(diffMinutes, 30) THEN Outcome("Scheduled", FALSE)
        ELSE IF MinGt(diffMinutes, 10) THEN Outcome("Boarding", FALSE)
        ELSE IF MinGe(diffMinutes, -60) THEN Outcome("Departed", FALSE)
        ELSE Outcome("Landed", FALSE)

\* src/utils/statusCalculator.ts; nowUtcMillis is the Date.now() it reads.
calculateFlightStatus(departureTimeString, nowUtcMillis) ==
    LET departureUtcMillis == DateGetTime(departureTimeString)
        diffMinutes == Minus(departureUtcMillis, Num(nowUtcMillis))
    IN  IF isNaN(departureUtcMillis) THEN Outcome("Unknown", TRUE)
        ELSE IF MinGt(diffMinutes, 30) THEN Outcome("Scheduled", FALSE)
        ELSE IF MinGt(diffMinutes, 10) THEN Outcome("Boarding", FALSE)
        ELSE IF MinGe(diffMinutes, -60) THEN Outcome("Departed", FALSE)
        ELSE IF MinLt(diffMinutes, -60) THEN Outcome("Landed", FALSE)
        ELSE IF MinLt(diffMinutes, -15) THEN Outcome("Delayed", FALSE)
        ELSE Outcome("Unknown", FALSE)

\* The second version of the same function (src/main.tsx, lines 60-100):
\* an if / else-if chain followed by two independent overriding ifs.
calculateFlightStatusV2(departureTimeString, nowUtcMillis) ==
    LET departureUtcMillis == DateGetTime(departureTimeString)
        diffMinutes == Minus(departureUtcMillis, Num(nowUtcMillis))
        s0 == "Scheduled"
        s1 == IF MinGt(diffMinutes, 30) THEN "Scheduled"
              ELSE IF MinGt(diffMinutes, 10) THEN "Boarding"
              ELSE IF MinGe(diffMinutes, -60) THEN "Departed"
              ELSE s0
        s2 == IF MinLt(diffMinutes, -15) THEN "Delayed" ELSE s1
        s3 == IF MinLt(diffMinutes, -60) THEN "Landed" ELSE s2
    IN  IF isNaN(departureUtcMillis) THEN Outcome("Unknown", TRUE)
        ELSE IF s3 \in validStatusOptions THEN Outcome(s3, FALSE)
        ELSE Outcome("Unknown", TRUE)

----------------------------------------------------------------------------
(* The classifier harness: calls of calculateFlightStatus at sampled       *)
(* clock readings, with the two latest calls recorded.                     *)

\* Sampled departure instants and the (departure - now) differences the
\* clock samples are built from: the ladder's thresholds, one millisecond
\* or one second beyond each, and a point inside each interval.
Dep0 == 100 * 60000
Dep1 == 120 * 60000
DiffSamples == {45 * 60000, 30 * 60000 + 1, 30 * 60000, 15 * 60000,
                10 * 60000 + 1, 10 * 60000, -5 * 60000, -15 * 60000,
                -15 * 60000 - 1, -30 * 60000, -60 * 60000, -60 * 60000 - 1,
                -60 * 60000 - 1000, -90 * 60000}
ClockSamples == {Dep0 - d : d \in DiffSamples}
ClockStart == Dep0 - 45 * 60000
DepartureStrings == {IsoString(Dep0), IsoString(Dep1)} \cup GarbageStrings

NoCall == [fn |-> "none", dep |-> IsoString(0), out |-> Outcome("Unknown", FALSE), at |-> 0]
Call(fn, dep, at, out) == [fn |-> fn, dep |-> dep, out |-> out, at |-> at]

\* Time passes: Date.now() never decreases.
Tick ==
    /\ \E n \in ClockSamples : n > now /\ now' = n
    /\ UNCHANGED <<classifierVars, dataVars, tableVars, viewVars, signalrVars, outerVars>>

CallStatusCalculator(dep) ==
    /\ lastCall' = Call("statusCalculator", dep, now, calculateFlightStatus(dep, now))
    /\ prevCall' = lastCall
    /\ UNCHANGED <<now, dataVars, tableVars, viewVars, signalrVars, outerVars>>

CallStatusCalculatorV2(dep) ==
    /\ lastCall' = Call("statusCalculatorV2", dep, now, calculateFlightStatusV2(dep, now))
    /\ prevCall' = lastCall
    /\ UNCHANGED <<now, dataVars, tableVars, viewVars, signalrVars, outerVars>>

----------------------------------------------------------------------------
(* The flights list (useFlightsData, FlightDashboard).                     *)

Ids == {"A", "B"}
NoId == "null"
NoStatus == "undefined"            \* currentStatus absent

\* The departure time of each flight is fixed by the backend.
DepartureOf(id) == IF id = "A" THEN IsoString(Dep0) ELSE IsoString(Dep1)
Flight(id, st) == [id |-> id, departureTime |-> DepartureOf(id), currentStatus |-> st]

\* Strings a FlightStatusChanged message carries as newStatus in the model:
\* two values of the enumeration and one string outside it.
PushStatuses == {"Scheduled", "Boarding", "Cancelled"}

\* The currentStatus of the flight a FlightAdded message carries: absent,
\* or a status the backend has set.
AddedStatuses == {NoStatus, "Boarding"}

\* Lists getFlights may answer with: flights with distinct ids, in any order,
\* without a pushed status.
ServerLists ==
    {<<>>} \cup {<<Flight(a, NoStatus)>> : a \in Ids}
           \cup {<<Flight(p[1], NoStatus), Flight(p[2], NoStatus)>> :
                    p \in {q \in Ids \X Ids : q[1] # q[2]}}

IdsOf(list) == {list[i].id : i \in 1..Len(list)}

\* a ?? b
Nullish(a, b) == IF a = NoStatus THEN b ELSE a

\* The comparator (a, b) => new Date(a.departureTime).getTime() -
\* new Date(b.departureTime).getTime(); Array.prototype.sort treats a NaN
\* result as 0.
CompareDeparture(a, b) ==
    LET d == Minus(DateGetTime(a.departureTime), DateGetTime(b.departureTime))
    IN  IF d.nan THEN 0 ELSE d.v

\* Faulty variant: the element is put at the end, whatever its departure.
InsertSorted_AtEnd(f, sorted) == Append(sorted, f)

\* Array.prototype.sort with that comparator (stable).
RECURSIVE SortByDeparture(_)
InsertSorted(f, sorted) ==
    LET after == {i \in 1..Len(sorted) : CompareDeparture(sorted[i], f) > 0}
        k == IF after = {} THEN Len(sorted) + 1
             ELSE CHOOSE i \in after : \A j \in after : i <= j
    IN  SubSeq(sorted, 1, k - 1) \o <<f>> \o SubSeq(sorted, k, Len(sorted))
SortByDeparture(list) ==
    IF list = <<>> THEN <<>>
    ELSE InsertSorted(list[Len(list)], SortByDeparture(SubSeq(list, 1, Len(list) - 1)))

----------------------------------------------------------------------------
(* FlightTable: the change-detection effect.                               *)

EmptyAnim == <<>>
HIGHLIGHT_MS == 10000

\* Faulty variant: { ...next, ...prev }, an existing entry wins.
Spread_PrevWins(prev, next) ==
    [k \in DOMAIN prev \cup DOMAIN next |->
        IF k \in DOMAIN prev THEN prev[k] ELSE next[k]]

\* { ...prev, ...next }
Spread(prev, next) ==
    [k \in DOMAIN prev \cup DOMAIN next |->
        IF k \in DOMAIN next THEN next[k] ELSE prev[k]]

\* const next = { ...prev }; delete next[id]; return next
Without(prev, id) == [k \in DOMAIN prev \ {id} |-> prev[k]]

\* What handleDelete reads of the animatingStatuses it closed over:
\* whether animatingStatuses[id] exists, and its timeoutId.
NoTimeout == 0
ExpiredTimeout == -1
ClosureTimeout(anim, id) == IF id \in DOMAIN anim THEN anim[id].timeoutId ELSE NoTimeout

\* Faulty variant: the timer is not cancelled.
clearTimeout_Noop(pending, tid) == pending

\* clearTimeout of one handle: nothing happens if it is not pending.
clearTimeout(pending, tid) == {t \in pending : t.tid # tid}

\* setTimeout(callback deleting `id`, 10000) with the handle `tid`.
setTimeout(pending, tid, id) ==
    pending \cup {[id |-> id, tid |-> tid, delay |-> HIGHLIGHT_MS]}

\* new Map(prevFlightsRef.current.map(f => [f.id, f])).get(id): the last
\* entry with that id.
PrevHas(prev, id) == \E i \in 1..Len(prev) : prev[i].id = id
PrevGet(prev, id) ==
    prev[CHOOSE i \in 1..Len(prev) :
            /\ prev[i].id = id
            /\ \A j \in 1..Len(prev) : prev[j].id = id => j <= i]

\* The statuses the effect compares for one flight, with the clock reading
\* its calls of calculateFlightStatus see.
PrevActualStatus(prev, currentFlight, clock) ==
    LET currCalculatedStatus == calculateFlightStatus(currentFlight.departureTime, clock).status
    IN  IF PrevHas(prev, currentFlight.id)
        THEN LET prevFlight == PrevGet(prev, currentFlight.id)
             IN  Nullish(prevFlight.currentStatus,
                         calculateFlightStatus(prevFlight.departureTime, clock).status)
        ELSE currCalculatedStatus

\* Faulty variant: the pushed status of the current flight is ignored.
CurrentActualStatus_ComputedOnly(currentFlight, clock) ==
    calculateFlightStatus(currentFlight.departureTime, clock).status

CurrentActualStatus(currentFlight, clock) ==
    Nullish(currentFlight.currentStatus,
            calculateFlightStatus(currentFlight.departureTime, clock).status)

\* Faulty variant: a flight without previous record is compared as well.
ChangeDetected_NoPrevGuard(prev, currentFlight, clock) ==
    CurrentActualStatus(currentFlight, clock) # PrevActualStatus(prev, currentFlight, clock)

ChangeDetected(prev, currentFlight, clock) ==
    /\ PrevHas(prev, currentFlight.id)
    /\ CurrentActualStatus(currentFlight, clock) # PrevActualStatus(prev, currentFlight, clock)

\* The handles some animatingStatuses object holds.
HandlesOf(anim) == {anim[k].timeoutId : k \in DOMAIN anim}

\* The handle setTimeout returns.  The browser never returns a handle
\* twice; the model takes the least handle that is neither pending nor
\* held by any object the program can still read, which no later
\* clearTimeout can confuse with an older timer.
FreshHandle(pending, held) ==
    LET used == {t.tid : t \in pending} \cup held
    IN  CHOOSE n \in 1..(Cardinality(used) + 1) : n \notin used

\* flights.forEach(...) of the effect, from index i on.  acc carries
\* newAnimating and the pending timers; held are the handles in use.
RECURSIVE EffectLoop(_, _, _, _, _, _, _)
EffectLoop(i, cur, prev, closureAnim, clock, held, acc) ==
    IF i > Len(cur) THEN acc
    ELSE LET currentFlight == cur[i]
             id == currentFlight.id
         IN  IF ChangeDetected(prev, currentFlight, clock)
             THEN LET cleared == IF id \in DOMAIN closureAnim
                                 THEN clearTimeout(acc.timers, closureAnim[id].timeoutId)
                                 ELSE acc.timers
                      timeoutId == FreshHandle(acc.timers,
                                               held \cup HandlesOf(acc.newAnimating))
                      entry == [timeoutId |-> timeoutId,
                                oldStatus |-> PrevActualStatus(prev, currentFlight, clock),
                                newStatus |-> CurrentActualStatus(currentFlight, clock)]
                  IN  EffectLoop(i + 1, cur, prev, closureAnim, clock, held,
                         [timers |-> setTimeout(cleared, timeoutId, id),
                          newAnimating |-> Spread(acc.newAnimating, (id :> entry))])
             ELSE EffectLoop(i + 1, cur, prev, closureAnim, clock, held, acc)

\* One run of the effect body (FlightTable.tsx lines 39-81).
RunEffect(cur, prev, closureAnim, clock, pending, held) ==
    EffectLoop(1, cur, prev, closureAnim, clock, held,
               [timers |-> pending, newAnimating |-> EmptyAnim])

\* The effect's cleanup (lines 83-85): it clears the timers of the
\* animatingStatuses its own render saw.
RECURSIVE CleanupTimers(_, _)
CleanupTimers(pending, closureAnim) ==
    IF DOMAIN closureAnim = {} THEN pending
    ELSE LET k == CHOOSE x \in DOMAIN closureAnim : TRUE
         IN  CleanupTimers(clearTimeout(pending, closureAnim[k].timeoutId),
                           Without(closureAnim, k))

----------------------------------------------------------------------------
(* Rendering.  Every task that sets state (a SignalR handler, a timer      *)
(* callback, a continuation of fetchData or handleDelete, a click) is      *)
(* followed by the render of its updates and by the effects that render    *)
(* triggers.  The setAnimatingStatuses call the effect itself makes is     *)
(* rendered by a later task (RenderQueued), which any other task may       *)
(* precede.                                                                *)

MaxTimers == 2      \* pending timers of the mounted FlightTable
MaxOrphans == 1     \* pending timers of unmounted FlightTables
MaxDeletes == 2     \* outstanding delete requests

\* FlightDashboard renders <FlightTable> only under this condition.
ShouldMount(fl, ld) == ~ld /\ Len(fl) > 0

\* What an unmounted FlightTable leaves behind: continuations of
\* handleDelete whose setState calls no longer change anything.
Orphaned(set) == {[x EXCEPT !.stale = TRUE] : x \in set}

TableState(m, rr, anim, rendered, prev, del, pend, orphans, reqs, at) ==
    [mounted |-> m, rerender |-> rr, animatingStatuses |-> anim,
     renderedAnim |-> rendered, prevFlightsRef |-> prev, deletingId |-> del,
     timers |-> pend, orphanTimers |-> orphans, deleteReq |-> reqs,
     observedAt |-> at]

\* The render that follows a task, and its effects.  fl, ld are the flights
\* and loading the render sees; anim, del, pend, reqs are animatingStatuses,
\* deletingId, the pending timers and delete requests as the task left
\* them; depsChanged says whether flights or animatingStatuses is another
\* object than at the previous render of FlightTable.
Render(fl, ld, anim, del, pend, reqs, depsChanged) ==
    IF mounted /\ ~ShouldMount(fl, ld) THEN
        \* FlightTable leaves the tree: the last effect's cleanup runs and
        \* the component's state is dropped.
        LET left == CleanupTimers(pend, renderedAnim)
        IN  TableState(FALSE, FALSE, EmptyAnim, EmptyAnim, <<>>, NoId, {},
                       orphanTimers + Cardinality(left), Orphaned(reqs), now)
    ELSE IF ~mounted /\ ShouldMount(fl, ld) THEN
        \* FlightTable mounts: fresh state, useRef(flights), first effect run.
        LET e == RunEffect(fl, fl, EmptyAnim, now, pend,
                           {r.closureTimeout : r \in reqs})
            changed == DOMAIN e.newAnimating # {}
        IN  TableState(TRUE, changed,
                       IF changed THEN Spread(EmptyAnim, e.newAnimating) ELSE EmptyAnim,
                       EmptyAnim, fl, NoId, e.timers, orphanTimers, reqs, now)
    ELSE IF mounted /\ depsChanged THEN
        \* FlightTable re-renders with another flights or animatingStatuses:
        \* the previous effect's cleanup runs, then the effect.
        LET cleaned == CleanupTimers(pend, renderedAnim)
            e == RunEffect(fl, prevFlightsRef, anim, now, cleaned,
                           HandlesOf(anim) \cup HandlesOf(renderedAnim)
                               \cup {r.closureTimeout : r \in reqs})
            changed == DOMAIN e.newAnimating # {}
        IN  TableState(TRUE, changed,
                       IF changed THEN Spread(anim, e.newAnimating) ELSE anim,
                       anim, fl, del, e.timers, orphanTimers, reqs, now)
    ELSE
        \* No FlightTable, or a render that runs no effect of it.
        TableState(mounted, FALSE, anim, renderedAnim, prevFlightsRef, del,
                   pend, orphanTimers, reqs, IF mounted THEN observedAt ELSE now)

\* Timer handles are opaque to the program: it only passes them to
\* clearTimeout, which does nothing for a handle whose timer has fired or
\* was cleared.  Every such handle is therefore represented by the one
\* value ExpiredTimeout, wherever the program still holds it.
Expire(anim, pend) ==
    [k \in DOMAIN anim |->
        IF anim[k].timeoutId \in {x.tid : x \in pend} THEN anim[k]
        ELSE [anim[k] EXCEPT !.timeoutId = ExpiredTimeout]]

ExpireClosures(reqs, pend) ==
    {IF r.closureTimeout = NoTimeout \/ r.closureTimeout \in {x.tid : x \in pend}
     THEN r ELSE [r EXCEPT !.closureTimeout = ExpiredTimeout] : r \in reqs}

\* Faulty variant: the row shows the computed status even when a status
\* was pushed.
FlightRow_ComputedOnly(flight, anim, clock) ==
    IF flight.id \in DOMAIN anim
    THEN <<anim[flight.id].oldStatus, anim[flight.id].newStatus>>
    ELSE <<calculateFlightStatus(flight.departureTime, clock).status>>

\* FlightRowComponent and StatusDisplayComponent: the chips a row shows,
\* the pair (old, new) while it has an animationInfo, else its
\* displayStatus = flight.currentStatus ?? calculateFlightStatus(...).
NoView == <<>>
FlightRow(flight, anim, clock) ==
    LET displayStatus ==
            Nullish(flight.currentStatus,
                    calculateFlightStatus(flight.departureTime, clock).status)
    IN  IF flight.id \in DOMAIN anim
        THEN <<anim[flight.id].oldStatus, anim[flight.id].newStatus>>
        ELSE <<displayStatus>>

\* The rows whose props differ from their last render when the task
\* changed those of `ids`: FlightRow is memoized, and its onDelete prop
\* (handleDelete) is another function whenever animatingStatuses is another
\* object.
DirtyRows(ids) == IF rerender THEN Ids ELSE ids

\* What the table shows after the render that follows a task: a row is
\* rendered anew if it is new or its props changed, and keeps its last
\* output otherwise.
Display(fl, ld, anim, dirty) ==
    IF ~ShouldMount(fl, ld) THEN NoView
    ELSE [id \in IdsOf(fl) |->
            IF mounted /\ id \in DOMAIN displayed /\ id \notin dirty
            THEN displayed[id]
            ELSE FlightRow(PrevGet(fl, id), anim, now)]

Apply(table) ==
    \E t \in {table} :
        /\ Cardinality(t.timers) <= MaxTimers
        /\ t.orphanTimers <= MaxOrphans
        /\ mounted' = t.mounted
        /\ rerender' = t.rerender
        /\ animatingStatuses' = Expire(t.animatingStatuses, t.timers)
        /\ renderedAnim' = Expire(t.renderedAnim, t.timers)
        /\ prevFlightsRef' = t.prevFlightsRef
        /\ deletingId' = t.deletingId
        /\ timers' = t.timers
        /\ orphanTimers' = t.orphanTimers
        /\ deleteReq' = ExpireClosures(t.deleteReq, t.timers)
        /\ observedAt' = t.observedAt

\* The render of the effect's own setAnimatingStatuses call.
RenderQueued ==
    /\ rerender
    /\ Apply(Render(flights, loading, animatingStatuses, deletingId, timers,
                    deleteReq, TRUE))
    /\ displayed' = Display(flights, loading, animatingStatuses, Ids)
    /\ UNCHANGED <<now, classifierVars, dataVars, signalrVars, outerVars>>

\* A highlight timer fires: setAnimatingStatuses(prev => prev without id).
TimerFire(t) ==
    /\ t \in timers
    /\ Apply(Render(flights, loading, Without(animatingStatuses, t.id),
                    deletingId, timers \ {t}, deleteReq, TRUE))
    /\ displayed' = Display(flights, loading, Without(animatingStatuses, t.id), Ids)
    /\ UNCHANGED <<now, classifierVars, dataVars, signalrVars, outerVars>>

\* A timer of an unmounted FlightTable fires: its setAnimatingStatuses
\* call changes nothing.
OrphanTimerFire ==
    /\ orphanTimers > 0
    /\ orphanTimers' = orphanTimers - 1
    /\ UNCHANGED <<outerVars, now, classifierVars, dataVars, mounted, rerender,
                   animatingStatuses, renderedAnim, prevFlightsRef, deletingId,
                   timers, deleteReq, observedAt, displayed, signalrVars>>

----------------------------------------------------------------------------
(* useSnackbar: the one snackbar of the application.  A message is kept as *)
(* its template, without the flight number it names.                       *)

NoSnackbar == [open |-> FALSE, message |-> "", severity |-> "info"]

\* show(msg, sev)
show(msg, sev) == [open |-> TRUE, message |-> msg, severity |-> sev]

\* handleClose(event, reason): the snackbar's close button or its
\* autoHideDuration; a click elsewhere ("clickaway") closes nothing.
handleClose(reason) ==
    /\ snackbar.open
    /\ snackbar' = IF reason = "clickaway" THEN snackbar
                   ELSE [snackbar EXCEPT !.open = FALSE]
    /\ UNCHANGED <<now, classifierVars, dataVars, tableVars, viewVars,
                   signalrVars, hookVars, backend>>

----------------------------------------------------------------------------
(* useFlightsData.fetchData and the SignalR handlers of FlightDashboard.   *)

\* The filters change (Apply / Clear, enabled only while not loading):
\* fetchData starts.
StartFetch ==
    /\ ~loading
    /\ loading' = TRUE
    /\ inFlight' = inFlight + 1
    /\ flights' = flights
    /\ Apply(Render(flights', loading', animatingStatuses, deletingId, timers,
                    deleteReq, rerender))
    /\ displayed' = Display(flights', loading', animatingStatuses, DirtyRows({}))
    /\ UNCHANGED <<now, classifierVars, signalrVars>>

FetchSucceed(data) ==
    /\ inFlight > 0
    /\ flights' = SortByDeparture(data)
    /\ loading' = FALSE
    /\ inFlight' = inFlight - 1
    /\ Apply(Render(flights', loading', animatingStatuses, deletingId, timers,
                    deleteReq, TRUE))
    /\ displayed' = Display(flights', loading', animatingStatuses, Ids)
    /\ UNCHANGED <<now, classifierVars, signalrVars>>

\* Every failure path of fetchData ends with an empty list.
FetchFail ==
    /\ inFlight > 0
    /\ flights' = <<>>
    /\ loading' = FALSE
    /\ inFlight' = inFlight - 1
    /\ Apply(Render(flights', loading', animatingStatuses, deletingId, timers,
                    deleteReq, TRUE))
    /\ displayed' = Display(flights', loading', animatingStatuses, Ids)
    /\ UNCHANGED <<now, classifierVars, signalrVars>>

\* Faulty variant: the new flight is added even if its id is in the list.
handleFlightAdded_NoDuplicateCheck(newFlight) ==
    /\ flights' = SortByDeparture(Append(flights, newFlight))
    /\ Apply(Render(flights', loading, animatingStatuses, deletingId, timers,
                    deleteReq, TRUE))
    /\ displayed' = Display(flights', loading, animatingStatuses, DirtyRows({}))
    /\ UNCHANGED <<now, classifierVars, loading, inFlight, signalrVars>>

handleFlightAdded(newFlight) ==
    LET duplicate == newFlight.id \in IdsOf(flights)
    IN  /\ flights' = IF duplicate THEN flights
                      ELSE SortByDeparture(Append(flights, newFlight))
        /\ Apply(Render(flights', loading, animatingStatuses, deletingId, timers,
                        deleteReq, rerender \/ ~duplicate))
        /\ displayed' = Display(flights', loading, animatingStatuses, DirtyRows({}))
        /\ UNCHANGED <<now, classifierVars, loading, inFlight, signalrVars>>

handleFlightDeleted(deletedId) ==
    /\ flights' = SelectSeq(flights, LAMBDA f : f.id # deletedId)
    /\ Apply(Render(flights', loading, animatingStatuses, deletingId, timers,
                    deleteReq, TRUE))
    /\ displayed' = Display(flights', loading, animatingStatuses, DirtyRows({}))
    /\ UNCHANGED <<now, classifierVars, loading, inFlight, signalrVars>>

\* Faulty variant: once the id is in the list, every flight is overwritten.
handleFlightStatusChanged_AllFlights(flightId, newStatus) ==
    /\ flights' = [i \in 1..Len(flights) |->
                      IF flightId \in IdsOf(flights) /\ flights[i].currentStatus # newStatus
                      THEN [flights[i] EXCEPT !.currentStatus = newStatus]
                      ELSE flights[i]]
    /\ Apply(Render(flights', loading, animatingStatuses, deletingId, timers,
                    deleteReq, TRUE))
    /\ displayed' = Display(flights', loading, animatingStatuses, Ids)
    /\ UNCHANGED <<now, classifierVars, loading, inFlight, signalrVars, outerVars>>

handleFlightStatusChanged(flightId, newStatus) ==
    /\ flights' = [i \in 1..Len(flights) |->
                      IF flights[i].id = flightId /\ flights[i].currentStatus # newStatus
                      THEN [flights[i] EXCEPT !.currentStatus = newStatus]
                      ELSE flights[i]]
    /\ Apply(Render(flights', loading, animatingStatuses, deletingId, timers,
                    deleteReq, TRUE))
    /\ displayed' = Display(flights', loading, animatingStatuses,
                            DirtyRows({flightId}))
    /\ UNCHANGED <<now, classifierVars, loading, inFlight, signalrVars, outerVars>>

----------------------------------------------------------------------------
(* FlightTable.handleDelete.                                               *)

\* The delete button of a rendered row is clicked: the code up to
\* `await deleteFlight(id)`.  The callback closes over the animatingStatuses
\* of the render it was created in, of which it will read only [id].
ClickDelete(id) ==
    /\ mounted
    /\ id \in IdsOf(prevFlightsRef)
    /\ deletingId # id
    /\ Cardinality(deleteReq) < MaxDeletes
    /\ LET req == [id |-> id,
                   k |-> CHOOSE n \in 1..MaxDeletes : \A r \in deleteReq : r.k # n,
                   stale |-> FALSE,
                   closureTimeout |-> ClosureTimeout(renderedAnim, id)]
       IN  Apply(Render(flights, loading, animatingStatuses, id, timers,
                        deleteReq \cup {req}, rerender))
    /\ displayed' = Display(flights, loading, animatingStatuses,
                            DirtyRows({id, deletingId}))
    /\ UNCHANGED <<now, classifierVars, dataVars, signalrVars, outerVars>>

\* deleteFlight resolved: the rest of the try block, then finally.
DeleteSucceed(r) ==
    /\ r \in deleteReq
    /\ IF r.stale
       THEN Apply(TableState(mounted, rerender, animatingStatuses, renderedAnim,
                             prevFlightsRef, deletingId,
                             clearTimeout(timers, r.closureTimeout),
                             orphanTimers, deleteReq \ {r}, observedAt))
       ELSE IF r.closureTimeout # NoTimeout
       THEN Apply(Render(flights, loading, Without(animatingStatuses, r.id), NoId,
                         clearTimeout(timers, r.closureTimeout),
                         deleteReq \ {r}, TRUE))
       ELSE Apply(Render(flights, loading, animatingStatuses, NoId, timers,
                         deleteReq \ {r}, rerender))
    /\ displayed' =
          IF r.stale THEN displayed
          ELSE IF r.closureTimeout # NoTimeout
          THEN Display(flights, loading, Without(animatingStatuses, r.id), Ids)
          ELSE Display(flights, loading, animatingStatuses, DirtyRows({deletingId}))
    /\ UNCHANGED <<now, classifierVars, dataVars, signalrVars, outerVars>>

\* deleteFlight rejected: the catch block, then finally.
DeleteFail(r) ==
    /\ r \in deleteReq
    /\ IF r.stale
       THEN /\ deleteReq' = deleteReq \ {r}
            /\ UNCHANGED <<mounted, rerender, animatingStatuses, renderedAnim,
                           prevFlightsRef, deletingId, timers, orphanTimers,
                           observedAt>>
       ELSE Apply(Render(flights, loading, animatingStatuses, NoId, timers,
                         deleteReq \ {r}, rerender))
    /\ displayed' =
          IF r.stale THEN displayed
          ELSE Display(flights, loading, animatingStatuses, DirtyRows({deletingId}))
    /\ snackbar' = show("Error deleting flight", "error")
    /\ UNCHANGED <<now, classifierVars, dataVars, signalrVars, hookVars, backend>>

\* Time passes between the tasks.
TableClockSamples == {Dep0 - 45 * 60000, Dep0 - 15 * 60000, Dep0 + 5 * 60000,
                      Dep0 + 90 * 60000}
ClockAdvance ==
    /\ \E n \in TableClockSamples : n > now /\ now' = n
    /\ UNCHANGED <<classifierVars, dataVars, tableVars, viewVars, signalrVars, outerVars>>

----------------------------------------------------------------------------
(* signalrService: the module's connection variable, the hub connections   *)
(* it has built, and the SignalR effect of FlightDashboard that uses them. *)

NoConnection == 0       \* connection = null
MaxHubs == 2            \* hub connections built
MaxEffects == 2         \* runs of the SignalR effect

\* new HubConnectionBuilder()...build() followed by connection.start(), up
\* to its first await; `starter` is the effect run whose call awaits it.
HubConnection(k) == [state |-> "Connecting", starter |-> k, methods |-> {}]

\* The functions a listener list holds: a handler of effect run k, or the
\* arrow function onFlightStatusChanged wraps around it.
Handler(k) == [kind |-> "handler", of |-> k]
Wrapper(k) == [kind |-> "wrapper", of |-> k]

\* HubConnection.on / off: listeners are compared by reference.
on(methods, methodName, fn) == methods \cup {[fn |-> fn, methodName |-> methodName]}
off(methods, methodName, fn) == methods \ {[fn |-> fn, methodName |-> methodName]}

\* onFlightAdded, onFlightDeleted, onFlightStatusChanged with the handlers
\* of effect run k; c is the module's connection when they are called.
onAll(hs, c, k) ==
    IF c = NoConnection THEN hs
    ELSE [hs EXCEPT ![c].methods =
             on(on(on(@, "FlightAdded", Handler(k)),
                   "FlightDeleted", Handler(k)),
                "FlightStatusChanged", Wrapper(k))]

\* offFlightAdded, offFlightDeleted, offFlightStatusChanged likewise: each
\* passes the handler itself to connection.off.
offAll(hs, c, k) ==
    IF c = NoConnection THEN hs
    ELSE [hs EXCEPT ![c].methods =
             off(off(off(@, "FlightAdded", Handler(k)),
                     "FlightDeleted", Handler(k)),
                 "FlightStatusChanged", Handler(k))]

Effect(onHub) == [onHub |-> onHub, isMounted |-> TRUE, offHub |-> NoConnection]

\* The SignalR effect runs (mount, or the second run React.StrictMode
\* makes): startSignalRConnection up to its await.  With a connected
\* connection the promise is already resolved and .then registers the
\* listeners; otherwise a new hub connection replaces the module variable.
SignalREffect ==
    /\ \A i \in DOMAIN effects : ~effects[i].isMounted
    /\ Len(effects) < MaxEffects
    /\ LET k == Len(effects) + 1
       IN  IF connection # NoConnection /\ hubs[connection].state = "Connected"
           THEN /\ hubs' = onAll(hubs, connection, k)
                /\ effects' = Append(effects, Effect(connection))
                /\ connection' = connection
           ELSE /\ Len(hubs) < MaxHubs
                /\ hubs' = Append(hubs, HubConnection(k))
                /\ effects' = Append(effects, Effect(NoConnection))
                /\ connection' = Len(hubs) + 1
    /\ UNCHANGED <<now, classifierVars, dataVars, tableVars, viewVars, outerVars>>

\* The effect's cleanup: isMounted = false, the three off calls, and
\* stopSignalRConnection up to its await.
SignalREffectCleanup(k) ==
    /\ k \in DOMAIN effects /\ effects[k].isMounted
    /\ LET afterOff == offAll(hubs, connection, k)
           stopping == connection # NoConnection /\ hubs[connection].state = "Connected"
       IN  hubs' = IF stopping
                   THEN [afterOff EXCEPT ![connection].state = "Disconnecting"]
                   ELSE afterOff
    /\ effects' = [effects EXCEPT ![k].isMounted = FALSE, ![k].offHub = connection]
    /\ UNCHANGED <<connection, now, classifierVars, dataVars, tableVars, viewVars, outerVars>>

\* connection.start() of hub h resolves: the rest of startSignalRConnection
\* (which reads the module variable, not the hub it started) and the
\* effect's .then.
StartResolved(h) ==
    /\ hubs[h].state = "Connecting"
    /\ LET k == hubs[h].starter
           started == [hubs EXCEPT ![h].state = "Connected"]
       IN  IF connection = NoConnection
           THEN \* connection.connectionId throws; catch: connection = null,
                \* rethrown to the effect's .catch
                /\ hubs' = started
                /\ snackbar' = IF effects[k].isMounted
                               THEN show("Could not connect to real-time server.",
                                         "error")
                               ELSE snackbar
                /\ UNCHANGED <<connection, effects>>
           ELSE IF effects[k].isMounted
           THEN /\ hubs' = onAll(started, connection, k)
                /\ effects' = [effects EXCEPT ![k].onHub = connection]
                /\ UNCHANGED <<connection, snackbar>>
           ELSE /\ hubs' = started
                /\ UNCHANGED <<connection, effects, snackbar>>
    /\ UNCHANGED <<now, classifierVars, dataVars, tableVars, viewVars, hookVars,
                   backend>>

\* connection.start() of hub h rejects: the catch block, then the effect's
\* .catch.
StartRejected(h) ==
    /\ hubs[h].state = "Connecting"
    /\ hubs' = [hubs EXCEPT ![h].state = "Disconnected"]
    /\ connection' = NoConnection
    /\ snackbar' = IF effects[hubs[h].starter].isMounted
                   THEN show("Could not connect to real-time server.", "error")
                   ELSE snackbar
    /\ UNCHANGED <<effects, now, classifierVars, dataVars, tableVars, viewVars,
                   hookVars, backend>>

\* connection.stop() of hub h completes: its onclose callback, then the
\* finally block of stopSignalRConnection.
StopResolved(h) ==
    /\ hubs[h].state = "Disconnecting"
    /\ hubs' = [hubs EXCEPT ![h].state = "Disconnected"]
    /\ connection' = NoConnection
    /\ UNCHANGED <<effects, now, classifierVars, dataVars, tableVars, viewVars, outerVars>>

\* withAutomaticReconnect: the transport of hub h is lost (onreconnecting
\* only logs) and comes back (onreconnected only logs).
ConnectionLost(h) ==
    /\ hubs[h].state = "Connected"
    /\ hubs' = [hubs EXCEPT ![h].state = "Reconnecting"]
    /\ UNCHANGED <<outerVars, connection, effects, now, classifierVars, dataVars, tableVars,
                   viewVars>>

Reconnected(h) ==
    /\ hubs[h].state = "Reconnecting"
    /\ hubs' = [hubs EXCEPT ![h].state = "Connected"]
    /\ UNCHANGED <<outerVars, connection, effects, now, classifierVars, dataVars, tableVars,
                   viewVars>>

\* Hub h closes for good (the server closed it, or reconnecting gave up):
\* its onclose callback runs.
ConnectionClosed(h) ==
    /\ hubs[h].state \in {"Connected", "Reconnecting"}
    /\ hubs' = [hubs EXCEPT ![h].state = "Disconnected"]
    /\ connection' = NoConnection
    /\ UNCHANGED <<effects, now, classifierVars, dataVars, tableVars, viewVars, outerVars>>

\* The values a FlightStatusChanged payload may hold, with their typeof.
JsString(str) == [str |-> str, typeof |-> "string"]
JsNumber == [str |-> "7", typeof |-> "number"]
Payload(flightId, newStatus) == [newStatus |-> newStatus, flightId |-> flightId, isNull |-> FALSE]
NullPayload == [newStatus |-> JsNumber, flightId |-> JsNumber, isNull |-> TRUE]
StatusPayloads ==
    {Payload(JsString("A"), JsString(st)) : st \in PushStatuses}
        \cup {Payload(JsString("B"), JsString("Boarding")),
              Payload(JsString("A"), JsNumber), Payload(JsNumber, JsString("Boarding")),
              NullPayload}

\* The listeners of hub h a FlightStatusChanged message invokes.
StatusListeners(h) == {l \in hubs[h].methods : l.methodName = "FlightStatusChanged"}

\* payload && typeof payload.flightId === 'string' &&
\* typeof payload.newStatus === 'string'
ValidPayload(payload) ==
    /\ ~payload.isNull
    /\ payload.flightId.typeof = "string"
    /\ payload.newStatus.typeof = "string"

\* Faulty variant: the handler does not look at isMounted.
ReceiveFlightStatusChanged_NoMountedCheck(h, payload) ==
    /\ hubs[h].state = "Connected"
    /\ LET called == {l.fn.of : l \in {x \in StatusListeners(h) : x.fn.kind = "wrapper"}}
       IN  IF ValidPayload(payload) /\ called # {}
           THEN handleFlightStatusChanged(payload.flightId.str, payload.newStatus.str)
           ELSE UNCHANGED vars

\* Hub h receives a FlightStatusChanged message: every listener is invoked.
\* A wrapper checks the payload and calls its handler, which returns at
\* once unless its effect run is still mounted.
ReceiveFlightStatusChanged(h, payload) ==
    /\ hubs[h].state = "Connected"
    /\ LET called == {l.fn.of : l \in {x \in StatusListeners(h) : x.fn.kind = "wrapper"}}
       IN  IF ValidPayload(payload) /\ \E k \in called : effects[k].isMounted
           THEN handleFlightStatusChanged(payload.flightId.str, payload.newStatus.str)
           ELSE UNCHANGED vars

\* Every variable of the client: all but the backend's flights.
clientVars == <<now, classifierVars, dataVars, tableVars, viewVars, signalrVars,
                hookVars, snackbar>>

\* The handlers of effect runs that hub h invokes for a message: the
\* callbacks FlightDashboard registered under that method name.
Listeners(h, methodName) == {l \in hubs[h].methods : l.methodName = methodName}
Called(h, methodName) ==
    {l.fn.of : l \in {x \in Listeners(h, methodName) : x.fn.kind = "handler"}}

\* Hub h receives a FlightAdded message: the handler returns at once
\* unless its effect run is still mounted, else it updates the list and
\* shows the snackbar.
ReceiveFlightAdded(h, newFlight) ==
    /\ hubs[h].state = "Connected"
    /\ IF \E k \in Called(h, "FlightAdded") : effects[k].isMounted
       THEN /\ handleFlightAdded(newFlight)
            /\ snackbar' = show("Flight Added", "success")
            /\ UNCHANGED hookVars
       ELSE UNCHANGED clientVars

\* Hub h receives a FlightDeleted message.
ReceiveFlightDeleted(h, deletedId) ==
    /\ hubs[h].state = "Connected"
    /\ IF \E k \in Called(h, "FlightDeleted") : effects[k].isMounted
       THEN /\ handleFlightDeleted(deletedId)
            /\ snackbar' = show("Flight Deleted", "info")
            /\ UNCHANGED hookVars
       ELSE UNCHANGED clientVars

----------------------------------------------------------------------------
(* The filters of FlightDashboard, the getFlights requests of              *)
(* useFlightsData and the backend that answers them.                       *)

Undefined == "undefined"
NoError == "null"

\* What the user may have typed into the destination field and chosen in
\* the status select when a filter button is clicked.
DestinationInputs == {"", "   ", " LHR "}
StatusInputs == {"", "Landed"}

\* String.prototype.trim on those texts.
trim(str) == IF str = " LHR " THEN "LHR" ELSE IF str = "   " THEN "" ELSE str

\* str || undefined
OrUndefined(str) == IF str = "" THEN Undefined ELSE str

Filters(destination, status) == [status |-> status, destination |-> destination]
NoFilters == Filters(Undefined, Undefined)

\* hasFilterChanged and isFilterApplied of the render.
hasFilterChanged(destinationFilterInput, statusFilterInput) ==
    \/ OrUndefined(trim(destinationFilterInput)) # applied.destination
    \/ OrUndefined(statusFilterInput) # applied.status
isFilterApplied == applied.destination # Undefined \/ applied.status # Undefined

\* The backend: where each flight goes, and whether it holds the flight.
\* An id is never reused: a flight is "absent" before it is created, then
\* "seeded" (created before the dashboard opened) or "announced" (created
\* later, with a FlightAdded message), and "deleted" for good.
DestinationOf(id) == IF id = "A" THEN "LHR" ELSE "JFK"
Held == {"seeded", "announced"}

\* GET /flights?destination=..&status=..: the flights the backend holds
\* that match the parameters given; a parameter left out matches all.
Matches(id, filters, clock) ==
    /\ filters.destination \in {Undefined, DestinationOf(id)}
    /\ filters.status \in {Undefined,
                           calculateFlightStatus(DepartureOf(id), clock).status}
RECURSIVE ListOf(_)
ListOf(ids) ==
    IF ids = {} THEN <<>>
    ELSE LET id == CHOOSE x \in ids : \A y \in ids : DateGetTime(DepartureOf(y)).v
                                                        <= DateGetTime(DepartureOf(x)).v
         IN  <<Flight(id, NoStatus)>> \o ListOf(ids \ {id})
Answer(held, filters, clock) ==
    ListOf({id \in Ids : held[id] \in Held /\ Matches(id, filters, clock)})

\* The requests outstanding at once in the model.
MaxRequests == 2

\* The times a development build under React.StrictMode runs a mount
\* effect.
StrictModeRuns == 2

\* fetchData up to `await getFlights(destination, status)`, run by the
\* effect when the applied filters have changed.
fetchData(filters) ==
    /\ Cardinality(requests) < MaxRequests
    /\ StartFetch
    /\ error' = NoError
    /\ requests' = requests \cup
          {[k |-> CHOOSE n \in 1..MaxRequests : \A r \in requests : r.k # n,
            data |-> Answer(backend, filters, now),
            filters |-> filters]}

\* The Filter button, enabled by isApplyButtonDisabled = false.
handleApplyFilter(destinationFilterInput, statusFilterInput) ==
    /\ ~loading
    /\ hasFilterChanged(destinationFilterInput, statusFilterInput)
    /\ applied' = Filters(OrUndefined(trim(destinationFilterInput)),
                          OrUndefined(statusFilterInput))
    /\ fetchData(applied')
    /\ UNCHANGED <<backend, snackbar>>

\* The Clear button, enabled by isClearButtonDisabled = false.
handleClearFilters ==
    /\ ~loading
    /\ isFilterApplied
    /\ applied' = NoFilters
    /\ fetchData(applied')
    /\ UNCHANGED <<backend, snackbar>>

\* The ways getFlights fails, and the message fetchData's catch block
\* makes of each.
Failures == {"404", "403", "500", "no response"}
ErrorMessage(failure) ==
    IF failure = "404" THEN NoError
    ELSE IF failure = "403"
    THEN "Authorization failed. Please check your login or permissions."
    ELSE IF failure = "500"
    THEN "Server Error: Unable to fetch flight data at this time."
    ELSE "Network Error: Unable to connect to the server."

\* FlightDashboard's effect on [error, showSnackbar], run by the render
\* in which error has changed.
ErrorEffect(before, after) ==
    IF after # before /\ after # NoError
          /\ after # "No flights match the current criteria."
    THEN show(after, "error") ELSE snackbar

\* getFlights of request r resolves: the rest of the try block, finally.
getFlightsResolved(r) ==
    /\ r \in requests
    /\ requests' = requests \ {r}
    /\ FetchSucceed(r.data)
    /\ UNCHANGED <<applied, error, backend, snackbar>>

\* getFlights of request r rejects: the catch block, finally.
getFlightsRejected(r, failure) ==
    /\ r \in requests
    /\ requests' = requests \ {r}
    /\ FetchFail
    /\ error' = ErrorMessage(failure)
    /\ snackbar' = ErrorEffect(error, error')
    /\ UNCHANGED <<applied, backend>>

\* A flight is created on the backend, which announces it to the
\* dashboard's hub connection.
BackendAddsFlight(id) ==
    /\ backend[id] = "absent"
    /\ backend' = [backend EXCEPT ![id] = "announced"]
    /\ \E h \in DOMAIN hubs : ReceiveFlightAdded(h, Flight(id, NoStatus))

\* A flight is deleted on the backend, which announces that too.
BackendDeletesFlight(id) ==
    /\ backend[id] \in Held
    /\ backend' = [backend EXCEPT ![id] = "deleted"]
    /\ \E h \in DOMAIN hubs : ReceiveFlightDeleted(h, id)

----------------------------------------------------------------------------
(* Specifications.                                                         *)

\* The dashboard right after its first render: the initial fetch is out.
InitDashboard ==
    /\ now = ClockStart
    /\ lastCall = NoCall /\ prevCall = NoCall
    /\ flights = <<>> /\ loading = TRUE /\ inFlight = 1
    /\ mounted = FALSE /\ rerender = FALSE
    /\ animatingStatuses = EmptyAnim /\ renderedAnim = EmptyAnim
    /\ prevFlightsRef = <<>> /\ deletingId = NoId
    /\ timers = {} /\ orphanTimers = 0 /\ deleteReq = {}
    /\ observedAt = ClockStart
    /\ displayed = NoView
    /\ applied = NoFilters /\ requests = {} /\ error = NoError
    /\ backend = [id \in Ids |-> "absent"]
    /\ snackbar = NoSnackbar

\* ... with its SignalR effect run once, the connection started and the
\* three listeners registered.
Init ==
    /\ InitDashboard
    /\ connection = 1
    /\ hubs = <<[state |-> "Connected", starter |-> 1,
                 methods |-> on(on(on({}, "FlightAdded", Handler(1)),
                                   "FlightDeleted", Handler(1)),
                                "FlightStatusChanged", Wrapper(1))]>>
    /\ effects = <<[onHub |-> 1, isMounted |-> TRUE, offHub |-> NoConnection]>>

\* ... before its SignalR effect has run: no hub connection exists.
InitSignalR ==
    /\ InitDashboard
    /\ connection = NoConnection
    /\ hubs = <<>>
    /\ effects = <<>>

\* The dashboard with its data, its pushes and its timers; the delete
\* buttons are left alone, and so are the filters, the requests behind the
\* fetches, the error state and the snackbar.
Next ==
    \/ ClockAdvance
    \/ StartFetch /\ UNCHANGED outerVars
    \/ \E data \in ServerLists : FetchSucceed(data) /\ UNCHANGED outerVars
    \/ FetchFail /\ UNCHANGED outerVars
    \/ \E id \in Ids, st \in AddedStatuses :
          handleFlightAdded(Flight(id, st)) /\ UNCHANGED outerVars
    \/ \E id \in Ids : handleFlightDeleted(id) /\ UNCHANGED outerVars
    \/ \E h \in DOMAIN hubs, payload \in StatusPayloads :
          ReceiveFlightStatusChanged(h, payload)
    \/ RenderQueued
    \/ \E t \in timers : TimerFire(t)
    \/ OrphanTimerFire

Spec == Init /\ [][Next]_vars

\* The same with the fairness the event loop gives: a queued render runs,
\* and a pending timer fires.
SpecFair ==
    /\ Spec
    /\ WF_vars(RenderQueued)
    /\ WF_vars(\E t \in timers : TimerFire(t))

\* The same with the delete buttons in use.
NextDelete ==
    \/ Next
    \/ \E id \in Ids : ClickDelete(id)
    \/ \E r \in deleteReq : DeleteSucceed(r)
    \/ \E r \in deleteReq : DeleteFail(r)

SpecDelete == Init /\ [][NextDelete]_vars

\* The delete buttons alone: the rows of one fetch, the clicks, the
\* outcomes of deleteFlight and the FlightDeleted pushes that follow them.
NextButtons ==
    \/ \E data \in ServerLists : FetchSucceed(data) /\ UNCHANGED outerVars
    \/ \E id \in Ids : ClickDelete(id)
    \/ \E r \in deleteReq : DeleteSucceed(r)
    \/ \E r \in deleteReq : DeleteFail(r)
    \/ \E id \in Ids : handleFlightDeleted(id) /\ UNCHANGED outerVars
    \/ \E h \in DOMAIN hubs :
          ReceiveFlightStatusChanged(h, Payload(JsString("A"), JsString("Boarding")))
    \/ RenderQueued
    \/ \E t \in timers : TimerFire(t)
    \/ \E reason \in {"timeout", "clickaway"} : handleClose(reason)

SpecButtons == Init /\ [][NextButtons]_vars

\* The classifier alone, called at sampled clock readings.
NextClassifier ==
    \/ Tick
    \/ \E dep \in DepartureStrings : CallStatusCalculator(dep)
    \/ \E dep \in DepartureStrings : CallStatusCalculatorV2(dep)

SpecClassifier == Init /\ [][NextClassifier]_vars

\* The SignalR service under the runs and cleanups of the dashboard's
\* effect, with the flights of one fetch to deliver the pushes to.
NextSignalR ==
    \/ SignalREffect
    \/ \E k \in DOMAIN effects : SignalREffectCleanup(k)
    \/ \E h \in DOMAIN hubs : StartResolved(h)
    \/ \E h \in DOMAIN hubs : StartRejected(h)
    \/ \E h \in DOMAIN hubs : StopResolved(h)
    \/ \E h \in DOMAIN hubs : ConnectionLost(h)
    \/ \E h \in DOMAIN hubs : Reconnected(h)
    \/ \E h \in DOMAIN hubs : ConnectionClosed(h)
    \/ \E h \in DOMAIN hubs, payload \in StatusPayloads :
          ReceiveFlightStatusChanged(h, payload)
    \/ \E data \in ServerLists : FetchSucceed(data) /\ UNCHANGED outerVars

SpecSignalR == InitSignalR /\ [][NextSignalR]_vars

\* The same service with the three kinds of message delivered and the
\* snackbar in view; the flights come from the messages themselves.
NextMessages ==
    \/ SignalREffect
    \/ \E k \in DOMAIN effects : SignalREffectCleanup(k)
    \/ \E h \in DOMAIN hubs : StartResolved(h)
    \/ \E h \in DOMAIN hubs : StartRejected(h)
    \/ \E h \in DOMAIN hubs : StopResolved(h)
    \/ \E h \in DOMAIN hubs : ConnectionLost(h)
    \/ \E h \in DOMAIN hubs : Reconnected(h)
    \/ \E h \in DOMAIN hubs : ConnectionClosed(h)
    \/ \E h \in DOMAIN hubs :
          ReceiveFlightStatusChanged(h, Payload(JsString("A"), JsString("Boarding")))
    \/ \E h \in DOMAIN hubs :
          ReceiveFlightAdded(h, Flight("A", NoStatus)) /\ UNCHANGED backend
    \/ \E h \in DOMAIN hubs :
          ReceiveFlightDeleted(h, "A") /\ UNCHANGED backend
    \/ \E reason \in {"timeout", "clickaway"} : handleClose(reason)

SpecMessages == InitSignalR /\ [][NextMessages]_vars

\* The dashboard's fetches under its filter buttons, with a backend that
\* creates and deletes flights meanwhile.  main.tsx renders the application
\* inside React.StrictMode, under which a development build runs the
\* mount effect of useFlightsData twice: one or two requests are out.
InitFetch ==
    /\ now = ClockStart
    /\ lastCall = NoCall /\ prevCall = NoCall
    /\ flights = <<>> /\ loading = TRUE
    /\ mounted = FALSE /\ rerender = FALSE
    /\ animatingStatuses = EmptyAnim /\ renderedAnim = EmptyAnim
    /\ prevFlightsRef = <<>> /\ deletingId = NoId
    /\ timers = {} /\ orphanTimers = 0 /\ deleteReq = {}
    /\ observedAt = ClockStart
    /\ displayed = NoView
    /\ connection = 1
    /\ hubs = <<[state |-> "Connected", starter |-> 1,
                 methods |-> on(on(on({}, "FlightAdded", Handler(1)),
                                   "FlightDeleted", Handler(1)),
                                "FlightStatusChanged", Wrapper(1))]>>
    /\ effects = <<[onHub |-> 1, isMounted |-> TRUE, offHub |-> NoConnection]>>
    /\ applied = NoFilters /\ error = NoError
    /\ snackbar = NoSnackbar
    /\ backend \in [Ids -> {"absent", "seeded"}]
    /\ inFlight \in 1..StrictModeRuns
    /\ requests = {[k |-> n, data |-> Answer(backend, NoFilters, now),
                    filters |-> NoFilters] : n \in 1..inFlight}

NextFetch ==
    \/ \E destinationFilterInput \in DestinationInputs,
          statusFilterInput \in StatusInputs :
          handleApplyFilter(destinationFilterInput, statusFilterInput)
    \/ handleClearFilters
    \/ \E r \in requests : getFlightsResolved(r)
    \/ \E r \in requests, failure \in Failures : getFlightsRejected(r, failure)
    \/ \E id \in Ids : BackendAddsFlight(id)
    \/ \E id \in Ids : BackendDeletesFlight(id)

SpecFetch == InitFetch /\ [][NextFetch]_vars

----------------------------------------------------------------------------
(* The classifier: properties C1 - C6, over the recorded calls.            *)

IsCall(c) == c.fn # "none"
Parseable(c) == IsCall(c) /\ c.dep.text = "iso"
DiffMillis(c) == c.dep.ms - c.at

\* The first-match-wins ladder over diffMinutes, as the specification
\* states it.
Ladder(diffMillis) ==
    IF diffMillis > 30 * 60000 THEN "Scheduled"
    ELSE IF diffMillis > 10 * 60000 THEN "Boarding"
    ELSE IF diffMillis >= -60 * 60000 THEN "Departed"
    ELSE "Landed"

\* C1: for every parseable departure time and every current time the
\* function returns the value of the ladder (Scheduled if diffMinutes > 30,
\* else Boarding if > 10, else Departed if >= -60, else Landed), and never
\* Unknown.  Both versions of the function are called.
C1_LadderValue ==
    Parseable(lastCall) =>
        /\ lastCall.out.status = Ladder(DiffMillis(lastCall))
        /\ lastCall.out.status # "Unknown"

\* C2: the upper thresholds are strict.  A departure exactly 30 minutes
\* after now is Boarding and anything later is Scheduled; a departure
\* exactly 10 minutes after now is Departed and anything in (10, 30] minutes
\* is Boarding.
C2_StrictUpperThresholds ==
    Parseable(lastCall) =>
        LET d == DiffMillis(lastCall)
            st == lastCall.out.status
        IN  /\ d > 30 * 60000 => st = "Scheduled"
            /\ d = 30 * 60000 => st = "Boarding"
            /\ (d > 10 * 60000 /\ d <= 30 * 60000) => st = "Boarding"
            /\ d = 10 * 60000 => st = "Departed"

\* Both versions have classified a departure exactly on a threshold: the
\* latest call at exactly 30 minutes gave Boarding and the one before it,
\* at exactly 10 minutes, gave Departed.
C2_Witness ==
    /\ Parseable(lastCall) /\ Parseable(prevCall)
    /\ lastCall.fn # prevCall.fn
    /\ DiffMillis(lastCall) = 30 * 60000 /\ lastCall.out.status = "Boarding"
    /\ DiffMillis(prevCall) = 10 * 60000 /\ prevCall.out.status = "Departed"

\* C3: the lower boundary of Departed is inclusive.  Every departure from
\* 60 minutes before now to 10 minutes after now (both inclusive) is
\* Departed, and every departure more than 60 minutes before now is Landed.
C3_DepartedInterval ==
    Parseable(lastCall) =>
        LET d == DiffMillis(lastCall)
            st == lastCall.out.status
        IN  /\ (d >= -60 * 60000 /\ d <= 10 * 60000) => st = "Departed"
            /\ d < -60 * 60000 => st = "Landed"

\* C4: the function never returns Delayed, for any departure time and any
\* current time.
C4_NeverDelayed ==
    IsCall(lastCall) => lastCall.out.status # "Delayed"

\* C5: for an unparseable departure time string the function returns
\* Unknown without throwing, and the call changes no state of its caller
\* (the clock, the flights data, the table's state); it only writes a
\* diagnostic.
C5_UnparseableIsUnknown ==
    [][(/\ <<lastCall, prevCall>>' # <<lastCall, prevCall>>
        /\ lastCall'.fn = "statusCalculator"
        /\ lastCall'.dep \in GarbageStrings)
       => (/\ lastCall'.out.status = "Unknown"
           /\ ~lastCall'.out.threw
           /\ lastCall'.out.diag
           /\ UNCHANGED <<now, dataVars, tableVars, viewVars, signalrVars,
                        outerVars>>)]_vars

\* statusCalculator.ts has been called with "not-a-date" after a call with
\* a parseable string, and answered Unknown.
C5_Witness ==
    /\ lastCall.fn = "statusCalculator"
    /\ lastCall.dep.text = "not-a-date"
    /\ lastCall.out.status = "Unknown"
    /\ Parseable(prevCall)

----------------------------------------------------------------------------
(* The status-change tracking of FlightTable: properties C7 - C10.         *)

\* The entry of a flights list for an id, and a flight's effective status
\* at a clock reading: its pushed status, else its computed status.
FlightOf(list, id) == list[CHOOSE i \in 1..Len(list) : list[i].id = id]
Effective(f, clock) ==
    Nullish(f.currentStatus, calculateFlightStatus(f.departureTime, clock).status)

RecordIs(anim, id, old, new) ==
    /\ id \in DOMAIN anim
    /\ anim[id].oldStatus = old
    /\ anim[id].newStatus = new

\* C7, as claimed: whenever the pushed status of a flight present in the
\* previous and in the current observation differs between the two, the
\* effect opens a change record for it whose pair is (previous effective
\* status, current effective status).
C7_PushedChangeOpensRecord ==
    [][(mounted /\ mounted') =>
        \A id \in IdsOf(prevFlightsRef) \cap IdsOf(flights') :
            LET p == FlightOf(prevFlightsRef, id)
                c == FlightOf(flights', id)
            IN  p.currentStatus # c.currentStatus =>
                    RecordIs(animatingStatuses', id, Effective(p, now'),
                             Effective(c, now'))]_vars

\* C7, as the code has it: the effect compares effective statuses, both
\* taken at the time it runs (pushed status, else the status computed at
\* that time).  For a flight present in the previous and in the current
\* observation, it opens a change record with the pair (previous effective,
\* current effective) exactly when the two differ; when they are equal
\* (for instance a first pushed status equal to the computed one) it opens
\* none, and a record the flight has keeps its pair.
C7_EffectiveChangeOpensRecord ==
    [][(mounted /\ mounted') =>
        \A id \in IdsOf(prevFlightsRef) \cap IdsOf(flights') :
            LET prevEff == Effective(FlightOf(prevFlightsRef, id), now')
                curEff == Effective(FlightOf(flights', id), now')
            IN  /\ prevEff # curEff =>
                       RecordIs(animatingStatuses', id, prevEff, curEff)
                /\ (prevEff = curEff /\ id \in DOMAIN animatingStatuses') =>
                       /\ id \in DOMAIN animatingStatuses
                       /\ RecordIs(animatingStatuses', id,
                                   animatingStatuses[id].oldStatus,
                                   animatingStatuses[id].newStatus)]_vars

\* Flight A, shown as Scheduled, was pushed Boarding and the effect has just
\* opened the record (Scheduled, Boarding) with its timer.
C7_Witness ==
    /\ mounted /\ rerender
    /\ "A" \in IdsOf(flights)
    /\ FlightOf(flights, "A").currentStatus = "Boarding"
    /\ RecordIs(animatingStatuses, "A", "Scheduled", "Boarding")
    /\ \E t \in timers : t.id = "A" /\ t.tid = animatingStatuses["A"].timeoutId

\* C8: change detection compares the effective status at the previous
\* observation time with the effective status at the current observation
\* time.  Whenever the effect observes the flights at a later instant than
\* before, a flight of both observations whose effective status at the
\* previous instant differs from the one at the current instant gets a
\* change record with that pair; so a flight without pushed status observed
\* as Scheduled, Boarding, Departed, Landed gets a record at each of the
\* three transitions.
C8_ChangeAcrossObservationTimes ==
    [][(mounted /\ mounted' /\ observedAt' # observedAt) =>
        \A id \in IdsOf(prevFlightsRef) \cap IdsOf(flights') :
            LET prevEff == Effective(FlightOf(prevFlightsRef, id), observedAt)
                curEff == Effective(FlightOf(flights', id), observedAt')
            IN  prevEff # curEff =>
                    RecordIs(animatingStatuses', id, prevEff, curEff)]_vars

\* A step that neither removes the flight `id` or the table, nor changes
\* the flight's effective status.
Quiet(id) ==
    /\ mounted /\ mounted'
    /\ id \in IdsOf(flights) \cap IdsOf(flights')
    /\ Effective(FlightOf(flights, id), now) = Effective(FlightOf(flights', id), now')

\* C9: expiry is guaranteed.  In every behaviour in which, from some point
\* on, no step changes the effective status of a flight (or removes it),
\* whatever else happens to the list, to other flights and to their
\* timers, the flight's change record is eventually removed for good.
C9_ExpiryGuaranteed ==
    \A id \in Ids :
        <>[][Quiet(id)]_vars => <>[](id \notin DOMAIN animatingStatuses)

\* C10: once the effect has observed a flights list, the change-record map
\* has no entry for an id that is not in that list: the record of a removed
\* flight is deleted at once.
C10_RemovedFlightHasNoRecord ==
    mounted => \A id \in DOMAIN animatingStatuses : id \in IdsOf(prevFlightsRef)

----------------------------------------------------------------------------
(* Re-entrant changes and timers: properties C11 - C14.                    *)

\* The record of `id` was opened by the change that led to the previous
\* observation: its new status is the pushed status that observation had.
RecordOfLatestObservation(id) ==
    /\ id \in DOMAIN animatingStatuses
    /\ id \in IdsOf(prevFlightsRef)
    /\ animatingStatuses[id].newStatus = FlightOf(prevFlightsRef, id).currentStatus

\* C11: when a flight whose change record is still present (opened by the
\* change observed last) is observed again with a differing effective
\* status, the map holds one record for it, with the latest pair: old is
\* the effective status at the second-to-last observation, new is the
\* effective status at the last one.  The map is keyed by flight id, so a
\* second record for the same id cannot exist.
C11_LatestPairReplacesRecord ==
    [][(mounted /\ mounted') =>
        \A id \in IdsOf(prevFlightsRef) \cap IdsOf(flights') :
            LET old == Effective(FlightOf(prevFlightsRef, id), observedAt)
                new == Effective(FlightOf(flights', id), now')
            IN  (RecordOfLatestObservation(id) /\ old # new) =>
                    /\ RecordIs(animatingStatuses', id, old, new)
                    /\ animatingStatuses'[id].timeoutId # animatingStatuses[id].timeoutId]_vars

\* Flight A was pushed Boarding and then, its record (Scheduled, Boarding)
\* still present, Scheduled: the record is (Boarding, Scheduled), with its
\* timer pending.
C11_Witness ==
    /\ mounted /\ now = ClockStart
    /\ "A" \in IdsOf(flights)
    /\ FlightOf(flights, "A").currentStatus = "Scheduled"
    /\ RecordIs(animatingStatuses, "A", "Boarding", "Scheduled")
    /\ \E t \in timers : t.id = "A" /\ t.tid = animatingStatuses["A"].timeoutId

\* The pending timers of the mounted table that expire the record of `id`.
TimersOf(id) == {t \in timers : t.id = id}

\* C12: at most one expiry timer is pending per flight id, and a pending
\* timer of an id belongs to the record the map holds for that id: the
\* timer of a replaced record was cancelled, so it never removes the
\* record that replaced it.
C12_OneTimerPerRecord ==
    \A id \in Ids :
        /\ Cardinality(TimersOf(id)) <= 1
        /\ \A t \in TimersOf(id) :
              id \in DOMAIN animatingStatuses => animatingStatuses[id].timeoutId = t.tid

\* Flight A, alone in the list, was pushed Boarding and then Scheduled: the
\* second change found the first record's timer (handle 1) in use,
\* cancelled it and started its own (handle 2), the only pending timer.
C12_Witness ==
    /\ mounted /\ rerender /\ now = ClockStart
    /\ IdsOf(flights) = {"A"}
    /\ DOMAIN animatingStatuses = {"A"}
    /\ RecordIs(animatingStatuses, "A", "Boarding", "Scheduled")
    /\ animatingStatuses["A"].timeoutId = 2
    /\ timers = {[id |-> "A", tid |-> 2, delay |-> HIGHLIGHT_MS]}

\* The flights of the list s' that the previous observation did not have:
\* all of them when the table mounts.
NewlyAdded == IdsOf(flights') \ (IF mounted THEN IdsOf(prevFlightsRef) ELSE {})

\* C13: a flight present only in the current observation produces no
\* change record, whatever its pushed or computed status: the step that
\* observes it opens no record and starts no timer for its id (a record of
\* that id the map already held is left as it was).
C13_NewFlightOpensNoRecord ==
    [][mounted' =>
        \A id \in NewlyAdded :
            /\ id \in DOMAIN animatingStatuses' =>
                  /\ mounted /\ id \in DOMAIN animatingStatuses
                  /\ RecordIs(animatingStatuses', id, animatingStatuses[id].oldStatus,
                              animatingStatuses[id].newStatus)
            /\ {t \in timers' : t.id = id} \subseteq TimersOf(id)]_vars

\* Flight B arrived by FlightAdded with the pushed status Boarding while
\* its computed status is Scheduled, next to flight A, and has no record.
C13_Witness ==
    /\ mounted /\ now = ClockStart /\ ~rerender
    /\ IdsOf(flights) = {"A", "B"} /\ IdsOf(prevFlightsRef) = {"A", "B"}
    /\ FlightOf(flights, "B").currentStatus = "Boarding"
    /\ FlightOf(flights, "A").currentStatus = NoStatus
    /\ animatingStatuses = EmptyAnim

\* C14: no expiry timer is leaked.  When the FlightTable is torn down
\* (unmounted because the dashboard is loading or the list is empty), every
\* timer that was scheduled and has not fired is cancelled: no timer of an
\* unmounted FlightTable is pending, so none of its callbacks runs after
\* the teardown.
C14_NoTimerLeak ==
    orphanTimers = 0

----------------------------------------------------------------------------
(* What the rows show: properties C15 and C18.                             *)

\* The row of `id` is rendered and not highlighted: it shows one chip.
ShownPlain(id) == id \in DOMAIN displayed /\ Len(displayed[id]) = 1

\* C15: the status displayed for a flight that is not highlighted is its
\* effective status: its pushed status if it has one, whatever the computed
\* status is, and otherwise a status computed from its departure time (at
\* the clock reading of the row's render).  Every flight of the list has a
\* row.
C15_DisplayedIsEffective ==
    mounted =>
        /\ DOMAIN displayed = IdsOf(flights)
        /\ \A id \in IdsOf(flights) :
              ShownPlain(id) =>
                  LET f == FlightOf(flights, id)
                  IN  IF f.currentStatus # NoStatus
                      THEN displayed[id] = <<f.currentStatus>>
                      ELSE \E t \in TableClockSamples :
                              /\ t <= now
                              /\ displayed[id] =
                                    <<calculateFlightStatus(f.departureTime, t).status>>

\* Flight A carries the pushed status Boarding while its computed status
\* is Scheduled, is not highlighted, and its row shows Boarding; flight B,
\* without pushed status, shows its computed status Scheduled.
C15_Witness ==
    /\ mounted /\ now = ClockStart
    /\ IdsOf(flights) = {"A", "B"}
    /\ FlightOf(flights, "A").currentStatus = "Boarding"
    /\ FlightOf(flights, "B").currentStatus = NoStatus
    /\ calculateFlightStatus(DepartureOf("A"), now).status = "Scheduled"
    /\ animatingStatuses = EmptyAnim
    /\ displayed = [id \in {"A", "B"} |->
                       IF id = "A" THEN <<"Boarding">> ELSE <<"Scheduled">>]

\* The row of `id` shows the status computed at the current clock reading.
ShowsCurrent(id) ==
    displayed[id] = <<calculateFlightStatus(DepartureOf(id), now).status>>

\* C18: statuses update as time passes.  Whenever the row of a flight
\* without pushed status shows another status than the one computed at
\* the current time (the clock has crossed a threshold), then, without any
\* user action or server event being needed, the row eventually shows the
\* newly computed status (or the flight is pushed a status, or leaves the
\* table).
C18_DisplayFollowsClock ==
    \A id \in Ids :
        (/\ ShownPlain(id)
         /\ FlightOf(flights, id).currentStatus = NoStatus
         /\ ~ShowsCurrent(id))
        ~> (\/ id \notin DOMAIN displayed
            \/ FlightOf(flights, id).currentStatus # NoStatus
            \/ ShowsCurrent(id))

----------------------------------------------------------------------------
(* Status-change notifications: properties C16 and C17.                    *)

\* C16: the pushed status of every flight in the collection is absent or
\* one of the six values of the enumeration; a FlightStatusChanged message
\* carrying another string is rejected and changes no pushed status.
C16_PushedStatusInEnumeration ==
    \A i \in 1..Len(flights) : flights[i].currentStatus \in FlightStatus \cup {NoStatus}

\* What a notification with this payload may change in the flights data.
StatusChangeFrame(payload) ==
    /\ Len(flights') = Len(flights)
    /\ \A i \in 1..Len(flights) :
          /\ flights'[i].id = flights[i].id
          /\ flights'[i].departureTime = flights[i].departureTime
          /\ flights'[i].currentStatus =
                IF ValidPayload(payload) /\ flights[i].id = payload.flightId.str
                THEN payload.newStatus.str
                ELSE flights[i].currentStatus
    /\ UNCHANGED <<loading, inFlight>>

\* C17: a status-change notification (flightId, newStatus) overwrites the
\* pushed status of the flight with that id and changes nothing else of
\* the flights data: the other flights, the other fields of that flight,
\* the order and the membership of the list, and the loading state stay as
\* they are; for an id that is not in the list no flight changes.
C17_StatusChangeFrame ==
    [][\A h \in DOMAIN hubs, payload \in StatusPayloads :
          ReceiveFlightStatusChanged(h, payload) => StatusChangeFrame(payload)]_vars

\* A notification (A, Scheduled) has overwritten the pushed status of A in
\* the list of A and B; B is as it was fetched.
C17_Witness ==
    /\ mounted
    /\ flights = <<Flight("A", "Scheduled"), Flight("B", NoStatus)>>

----------------------------------------------------------------------------
(* The SignalR service: properties C19 and C20.                            *)

\* A hub connection that is open or connecting.
Live(h) == hubs[h].state \in {"Connecting", "Connected", "Reconnecting"}

\* C19: the service manages a single connection.  After any sequence of
\* start and stop calls and close events, at most one hub connection is
\* open or connecting, and the module's connection variable refers to it.
C19_SingleConnection ==
    LET live == {h \in DOMAIN hubs : Live(h)}
    IN  /\ Cardinality(live) <= 1
        /\ \A h \in live : connection = h

\* C20: offFlightStatusChanged(callback) removes the listener that
\* onFlightStatusChanged(callback) registered.  Once an effect run has
\* called on and then off with its handler on the same hub connection, that
\* connection, when connected, holds no FlightStatusChanged listener of
\* this run, so a message invokes none.
C20_OffRemovesListener ==
    \A k \in DOMAIN effects :
        LET h == effects[k].onHub
        IN  (/\ ~effects[k].isMounted
             /\ h # NoConnection /\ effects[k].offHub = h
             /\ hubs[h].state = "Connected")
            => \A l \in StatusListeners(h) : l.fn.of # k

----------------------------------------------------------------------------
(* The fetches of useFlightsData under the filters: properties C21, C23,   *)
(* C24 and C29.                                                            *)

\* C21: once every outstanding getFlights request has completed, the
\* flights list is the response to the request made with the applied
\* filters: the request that completes last, and so decides the list, is
\* never one made with earlier filters.
C21_ListFollowsAppliedFilters ==
    [][\A r \in requests :
          (requests' = requests \ {r} /\ requests' = {}) => r.filters = applied]_vars


\* C23: a flight announced by a FlightAdded push, not deleted since and
\* matching the applied filters, is in the flights list when the last
\* outstanding request, made with the applied filters, has been answered:
\* an answer requested before the push does not drop the flight.
C23_PushedFlightSurvivesFetch ==
    [][\A r \in requests :
          (getFlightsResolved(r) /\ requests' = {} /\ r.filters = applied)
              => \A id \in Ids :
                    (backend[id] = "announced" /\ Matches(id, applied, now))
                        => id \in IdsOf(flights')]_vars

\* C24: loading is true whenever at least one getFlights request is
\* outstanding, also when a second fetch has started before the first one
\* completed.
C24_LoadingWhileRequestsOutstanding == requests # {} => loading

\* C29: the outcome of a fetch.  A getFlights call that fails with 404
\* leaves the list empty and error null; one that fails in any other way
\* leaves the list empty and error a message; one that succeeds leaves
\* error null; loading is false after each of the three.
C29_FetchOutcome ==
    [][\A r \in requests :
          /\ getFlightsRejected(r, "404")
                => flights' = <<>> /\ error' = NoError /\ ~loading'
          /\ \A failure \in Failures \ {"404"} :
                getFlightsRejected(r, failure)
                    => flights' = <<>> /\ error' # NoError /\ ~loading'
          /\ getFlightsResolved(r) => error' = NoError /\ ~loading']_vars

----------------------------------------------------------------------------
(* The delete buttons: property C25.                                       *)

\* The delete button of the row of a flight is disabled.
isDeleting(id) == deletingId = id

\* C25: while a delete request of the mounted FlightTable for a flight is
\* outstanding, the delete button of that flight is disabled, also when
\* the delete requests of two flights overlap; and deletingId is null when
\* no delete request is outstanding.
C25_DeleteButtonDisabledWhileOutstanding ==
    /\ \A r \in deleteReq : ~r.stale => isDeleting(r.id)
    /\ deleteReq = {} => deletingId = NoId

----------------------------------------------------------------------------
(* The shape of the flights list: properties C26 and C27.                  *)

UniqueIds(list) == \A i, j \in 1..Len(list) : list[i].id = list[j].id => i = j
OrderOf(list) == [i \in 1..Len(list) |-> list[i].id]
SortedByDeparture(list) ==
    \A i \in 1..(Len(list) - 1) :
        list[i].departureTime.ms <= list[i + 1].departureTime.ms

\* C26: the ids of the flights list are unique after every step; a
\* FlightAdded push whose id is in the list leaves the list as it is, and
\* neither a FlightDeleted nor a FlightStatusChanged push adds an element.
C26_UniqueIds ==
    [][/\ UniqueIds(flights')
       /\ \A id \in IdsOf(flights), st \in AddedStatuses :
             handleFlightAdded(Flight(id, st)) => flights' = flights
       /\ \A id \in Ids :
             handleFlightDeleted(id) => IdsOf(flights') \subseteq IdsOf(flights)
       /\ \A h \in DOMAIN hubs, payload \in StatusPayloads :
             ReceiveFlightStatusChanged(h, payload)
                 => Len(flights') = Len(flights)]_vars

\* Both flights are in the list, A with a pushed status: every FlightAdded
\* push that arrives now carries an id of the list.
C26_Witness ==
    /\ mounted
    /\ flights = <<Flight("A", "Boarding"), Flight("B", NoStatus)>>

\* C27: the flights list is in ascending order of departure after every
\* step, a successful fetch and a FlightAdded push included; a
\* FlightDeleted and a FlightStatusChanged push keep the order of the
\* flights that remain.
C27_SortedByDeparture ==
    [][/\ SortedByDeparture(flights')
       /\ \A id \in Ids :
             handleFlightDeleted(id)
                 => OrderOf(flights') = SelectSeq(OrderOf(flights), LAMBDA x : x # id)
       /\ \A h \in DOMAIN hubs, payload \in StatusPayloads :
             ReceiveFlightStatusChanged(h, payload)
                 => OrderOf(flights') = OrderOf(flights)]_vars

\* B, which departs last, has been added by a push to the list that held
\* A, and stands after it.
C27_Witness ==
    /\ mounted
    /\ prevFlightsRef = <<Flight("A", NoStatus), Flight("B", "Boarding")>>
    /\ flights = prevFlightsRef

----------------------------------------------------------------------------
(* Messages after the cleanup of the SignalR effect: property C28.         *)

\* The SignalR effect has run and every run of it has been cleaned up.
Unmounted == effects # <<>> /\ \A k \in DOMAIN effects : ~effects[k].isMounted

\* C28: once the SignalR effect has been cleaned up, no FlightAdded,
\* FlightDeleted or FlightStatusChanged message changes the flights list or
\* shows a snackbar, also when a handler is still registered; and a
\* connection promise that resolves then registers no listener.
C28_NothingAfterCleanup ==
    [][Unmounted =>
          \A h \in DOMAIN hubs :
             /\ ( \/ ReceiveFlightAdded(h, Flight("A", NoStatus))
                  \/ ReceiveFlightDeleted(h, "A")
                  \/ ReceiveFlightStatusChanged(h, Payload(JsString("A"),
                                                          JsString("Boarding"))) )
                    => UNCHANGED <<flights, snackbar>>
             /\ StartResolved(h)
                    => /\ \A g \in DOMAIN hubs : hubs'[g].methods = hubs[g].methods
                       /\ UNCHANGED <<flights, snackbar>>]_vars

\* The effect has been cleaned up while flight A is in the list, and a
\* connected hub still holds a listener of it: the next message is
\* delivered to a handler that is still registered.
C28_Witness ==
    /\ Unmounted
    /\ flights = <<Flight("A", NoStatus)>>
    /\ \E h \in DOMAIN hubs : hubs[h].state = "Connected" /\ hubs[h].methods # {}

----------------------------------------------------------------------------
(* The timers of the change records: property C22.                         *)

\* C22: every entry of animatingStatuses has a pending expiry timer, one
\* that has neither fired nor been cancelled: the effect cleanup never
\* cancels the timer of an entry that stays in the map.
C22_EveryRecordHasPendingTimer ==
    \A id \in DOMAIN animatingStatuses :
        \E t \in timers : t.tid = animatingStatuses[id].timeoutId /\ t.id = id

====
